---- MODULE Spec2Model ----
(***************************************************************************)
(* Model of capai_python_common.utils.s3_utils.s3Client: a bucket-scoped   *)
(* client whose methods issue requests to an object store (boto3 S3) and   *)
(* map the store's answers to return values and exceptions.                *)
(*                                                                         *)
(* A string is a sequence of symbols.  "/" is the path delimiter and       *)
(* ".collection_info" stands for the sixteen characters of the marker      *)
(* filename, so that "b.collection_info" is <<"b", ".collection_info">>.   *)
(*                                                                         *)
(* The state is the bucket's content and the record of the last client     *)
(* call: its arguments, the requests it sent to the store with the store's *)
(* answer to each, what it handed to capture_exception, and how it ended.  *)
(*                                                                         *)
(* capai_python_common.utils.ssm_client.SSMClient is modelled the same way *)
(* over the parameter store: parameters holds the value stored under each  *)
(* parameter name.                                                         *)
(*                                                                         *)
(* clients holds the append_tags calls that two s3Client instances run     *)
(* concurrently, each between its two requests.                            *)
(***************************************************************************)
EXTENDS Integers, Sequences, FiniteSets, TLC

VARIABLES bucket, call, parameters, clients

vars == <<bucket, call, parameters, clients>>

(***************************************************************************)
(* Strings                                                                 *)
(***************************************************************************)
Range(s) == {s[i] : i \in 1..Len(s)}

\* str.startswith
StartsWith(s, p) == Len(p) <= Len(s) /\ SubSeq(s, 1, Len(p)) = p

\* str.endswith
EndsWith(s, p) == Len(p) <= Len(s) /\ SubSeq(s, Len(s) - Len(p) + 1, Len(s)) = p

\* the marker filename compared against at list_objects
CollectionInfo == <<".collection_info">>

\* position of the last "/" of s, 0 when s has none
LastSlash(s) ==
    IF \E i \in 1..Len(s) : s[i] = "/"
    THEN CHOOSE i \in 1..Len(s) : s[i] = "/" /\ \A j \in (i + 1)..Len(s) : s[j] # "/"
    ELSE 0

\* key.split("/")[-1] if "/" in key else key
Filename(key) == SubSeq(key, LastSlash(key) + 1, Len(key))

(***************************************************************************)
(* The bucket.  AllKeys lists the object keys of the model in the store's  *)
(* listing order (UTF-8 binary order: "." < "/" < letters).                *)
(***************************************************************************)
AllKeys ==
    << <<"org1", "/", "a">>,
       <<"org1", "/", "foo", "/", ".collection_info">>,
       <<"org1", "/", "foo", "/", "b", ".collection_info">>,
       <<"org1", "/", "foo", "/", "x">>,
       <<"org1", "/", "foo", "/", "y">>,
       <<"org1", "/", "foo", "bar", "/", "x">> >>

Keys == Range(AllKeys)

\* prefixes handed to list_objects and delete_collection
Prefixes ==
    { <<>>,
      <<"org1", "/", "foo">>,
      <<"org1", "/", "foo", "/">> }

\* the objects of the tagging specification
TagObjKeys == { <<"org1", "/", "foo", "/", "x">> }

\* collection is the object's Metadata["collection-name"], <<>> when it has none
NoObject == [present |-> FALSE, tags |-> <<>>, collection |-> <<>>]

\* the number of keys the store returns in one list_objects_v2 response
\* (1000 at the store; scaled down)
MaxKeys == 2

\* AWS limit of tags per object
MaxTags == 10

\* error codes of a store failure that does not depend on the bucket's content
TransientCodes == {"403", "500"}

\* the code of a failure of a per-object lookup inside list_objects, which the
\* client swallows without reading it
LookupFailure == "500"

(***************************************************************************)
(* Tag lists: sequences of [Key, Value]                                    *)
(***************************************************************************)
TagKeys(ts) == {ts[i].Key : i \in 1..Len(ts)}

UniqueKeys(ts) == \A i, j \in 1..Len(ts) : ts[i].Key = ts[j].Key => i = j

\* {tag["Key"]: tag["Value"] for tag in ts}: a later entry replaces an earlier one
TagDict(ts) ==
    [k \in TagKeys(ts) |->
        ts[CHOOSE i \in 1..Len(ts) :
              ts[i].Key = k /\ \A j \in (i + 1)..Len(ts) : ts[j].Key # k].Value]

\* a tag set the store accepts on a write
StoreAcceptsTags(ts) == UniqueKeys(ts) /\ Len(ts) <= MaxTags

TagsFromTo(lo, hi, v) == [i \in 1..(hi - lo + 1) |-> [Key |-> lo + i - 1, Value |-> v]]

\* tag lists handed to upload, put_tags and append_tags
TagInputs ==
    { TagsFromTo(1, MaxTags, 1),
      TagsFromTo(MaxTags + 1, MaxTags + 1, 1),
      TagsFromTo(1, 1, 2),
      TagsFromTo(1, MaxTags + 1, 1),
      <<[Key |-> 1, Value |-> 1], [Key |-> 1, Value |-> 2]>> }

\* exclude_keys handed to append_tags; <<>> is None or []
ExcludeInputs == { <<>>, <<2>> }

(***************************************************************************)
(* The store's answers.  An outcome is "ok" or the error code of the       *)
(* ClientError the request raises.                                         *)
(***************************************************************************)
HeadObjectOutcomes(key) ==
    (IF bucket[key].present THEN {"ok"} ELSE {"404"}) \cup TransientCodes

GetObjectTaggingOutcomes(key) ==
    (IF bucket[key].present THEN {"ok"} ELSE {"NoSuchKey"}) \cup TransientCodes

PutObjectTaggingOutcomes(key, ts) ==
    (IF ~bucket[key].present THEN {"NoSuchKey"}
     ELSE IF ~StoreAcceptsTags(ts) THEN {"InvalidTag"}
     ELSE {"ok"}) \cup TransientCodes

UploadOutcomes(ts) ==
    (IF ~StoreAcceptsTags(ts) THEN {"InvalidTag"} ELSE {"ok"}) \cup TransientCodes

DownloadFileOutcomes(key) ==
    (IF bucket[key].present THEN {"ok"} ELSE {"404"}) \cup TransientCodes

\* a request that succeeds whatever the bucket holds, unless the transport fails
PlainOutcomes == {"ok"} \cup TransientCodes

\* the response of head_object
HeadResponse(key) == [t |-> "metadata", Key |-> key]

Req(api, key, tagset, outcome) ==
    [api |-> api, key |-> key, tagset |-> tagset, keys |-> <<>>, outcome |-> outcome]

\* delete_objects(Delete={"Objects": keys})
DeleteObjectsReq(keys, outcome) ==
    [api |-> "delete_objects", key |-> <<>>, tagset |-> <<>>, keys |-> keys,
     outcome |-> outcome]

Min(a, b) == IF a <= b THEN a ELSE b

\* the keys under prefix, in listing order
KeysUnder(prefix) ==
    SelectSeq(AllKeys, LAMBDA k : bucket[k].present /\ StartsWith(k, prefix))

\* response["Contents"] of one list_objects_v2(Prefix=prefix) request: the first
\* MaxKeys keys under prefix (the response is truncated after them)
Contents(prefix) == SubSeq(KeysUnder(prefix), 1, Min(MaxKeys, Len(KeysUnder(prefix))))

(***************************************************************************)
(* The parameter store                                                     *)
(***************************************************************************)
\* the parameter names of the store; a hierarchical name begins with "/"
ParamNames == { <<"/", "path">>, <<"/", "other">> }

ParamValues == { "v1", "v2" }

\* what parameters holds for a name that has no parameter
NoParameter == "absent"

\* "arn:aws:ssm:"
ArnPrefix == <<"arn", ":", "aws", ":", "ssm", ":">>

\* the ARN the store gives the parameter name:
\* arn:aws:ssm:region:account-id:parameter/path/to/parameter
ArnOf(name) == ArnPrefix \o <<"region", ":", "account-id", ":", "parameter">> \o name

\* an ARN cut short, of four parts
ShortArn == ArnPrefix \o <<"region">>

\* an ARN whose sixth part does not begin with "parameter"
BareArn == ArnPrefix \o <<"region", ":", "account-id", ":", "path">>

\* name_or_arn, arn
Identifiers == ParamNames \cup {ArnOf(n) : n \in ParamNames} \cup {ShortArn, BareArn}

\* failures of the store that do not depend on the request
SsmFailures == {"ThrottlingException"}

Stored(name) == name \in ParamNames /\ parameters[name] # NoParameter

\* put_parameter(Name=name, Overwrite=True)
PutParameterOutcomes(name) ==
    (IF name \in ParamNames THEN {"ok"} ELSE {"ValidationException"}) \cup SsmFailures

\* get_parameter(Name=name), delete_parameter(Name=name)
GetParameterOutcomes(name) ==
    (IF name \notin ParamNames THEN {"ValidationException"}
     ELSE IF Stored(name) THEN {"ok"}
     ELSE {"ParameterNotFound"}) \cup SsmFailures

\* describe_parameters: the parameter's entry with its ARN, no entry, or a failure
DescribeParametersOutcomes == {"ok", "empty"} \cup SsmFailures

SsmReq(api, name, value, outcome) ==
    [api |-> api, key |-> name, tagset |-> <<>>, keys |-> <<>>, outcome |-> outcome,
     value |-> value]

(***************************************************************************)
(* The record of a call                                                    *)
(***************************************************************************)
NoValue == [t |-> "none"]
BoolValue(b) == [t |-> "bool", b |-> b]

\* what a call remembers of the call that completed before it
NoPrior == [op |-> "none", key |-> <<>>, kind |-> "none", tags |-> <<>>,
            existing |-> <<>>]

NoCall ==
    [op |-> "none", key |-> <<>>, tags |-> <<>>, exclude |-> <<>>,
     existing |-> <<>>, reqs |-> <<>>, captured |-> <<>>,
     kind |-> "none", exc |-> "none", code |-> "none", value |-> NoValue,
     prior |-> NoPrior]

\* c came right after the call p
After(c, p) ==
    [c EXCEPT !.prior = [op |-> p.op, key |-> p.key, kind |-> p.kind,
                         tags |-> p.tags, existing |-> p.existing]]

\* the call returned value
Returned(c, value) == [c EXCEPT !.kind = "return", !.value = value]

\* the call raised exc; code is the ClientError's code
Raised(c, exc, code) == [c EXCEPT !.kind = "raise", !.exc = exc, !.code = code]

Started(op, key) == [NoCall EXCEPT !.op = op, !.key = key]

Sent(c, r) == [c EXCEPT !.reqs = Append(@, r)]

\* capture_exception(e)
Captured(c, code) == [c EXCEPT !.captured = Append(@, code)]

\* the s3Client instances that call append_tags concurrently
ClientIds == {1, 2}

\* an instance between calls; rec is the record of its append_tags call
IdleClient == [pc |-> "idle", updated_tags |-> <<>>, rec |-> NoCall]

Init ==
    /\ bucket = [k \in Keys |-> NoObject]
    /\ parameters = [n \in ParamNames |-> NoParameter]
    /\ clients = [c \in ClientIds |-> IdleClient]
    /\ call = NoCall

(***************************************************************************)
(* exists_in_s3                                                            *)
(***************************************************************************)
\* variant: an access-denied answer is taken for not found as well
IsNotFound_OrForbidden(code) == code \in {"404", "403"}

\* the code of a head_object ClientError that means not found
IsNotFound(code) == code = "404"

ExistsResult(c, key, outcome) ==
    IF outcome = "ok" THEN Returned(c, HeadResponse(key))
    ELSE IF IsNotFound(outcome) THEN Returned(c, BoolValue(FALSE))
    ELSE Raised(c, "ClientError", outcome)

exists_in_s3(key) ==
    \E outcome \in HeadObjectOutcomes(key) :
        /\ call' = ExistsResult(Sent(Started("exists_in_s3", key),
                                     Req("head_object", key, <<>>, outcome)),
                                key, outcome)
        /\ UNCHANGED <<bucket, parameters, clients>>

(***************************************************************************)
(* upload                                                                  *)
(***************************************************************************)
\* tags is <<>> for None or []; the Tagging argument carries the tags in order.
\* The content type is taken as given or sniffed; it plays no part in the outcome.
upload(key, fileReadable, tags) ==
    LET c0 == [Started("upload", key) EXCEPT !.tags = tags] IN
    IF ~fileReadable
    THEN /\ call' = Raised(c0, "FileNotFoundError", "none")
         /\ UNCHANGED <<bucket, parameters, clients>>
    ELSE \E outcome \in UploadOutcomes(tags) :
            LET c1 == Sent(c0, Req("upload_fileobj", key, tags, outcome)) IN
            IF outcome = "ok"
            THEN /\ UNCHANGED <<parameters, clients>>
                 /\ bucket' = [bucket EXCEPT ![key] = [present |-> TRUE, tags |-> tags,
                                                      collection |-> <<>>]]
                 /\ call' = Returned(c1, BoolValue(TRUE))
            ELSE /\ call' = Raised(c1, "ClientError", outcome)
                 /\ UNCHANGED <<bucket, parameters, clients>>

(***************************************************************************)
(* download                                                                *)
(***************************************************************************)
DownloadPath == <<"/", "tmp">>

\* variant: the result of exists_in_s3 is not looked at
DownloadProceeds_Unchecked(e) == e.kind = "return"

\* whether download goes on to the transfer after exists_in_s3 ended as e
DownloadProceeds(e) == e.kind = "return" /\ e.value # BoolValue(FALSE)

download(key) ==
    \E headOutcome \in HeadObjectOutcomes(key) :
        LET c0 == Started("download", key)
            c1 == Sent(c0, Req("head_object", key, <<>>, headOutcome))
            e  == ExistsResult(c1, key, headOutcome)
        IN
        /\ UNCHANGED <<bucket, parameters, clients>>
        /\ IF e.kind = "raise" THEN call' = e
           ELSE IF ~DownloadProceeds(e)
           THEN call' = Raised(c1, "FileNotFoundError", "none")
           ELSE \E outcome \in DownloadFileOutcomes(key) :
                   LET c2 == Sent(c1, Req("download_file", key, <<>>, outcome)) IN
                   IF outcome = "ok"
                   THEN call' = Returned(c2, [t |-> "path", dir |-> DownloadPath,
                                              filename |-> Filename(key)])
                   ELSE call' = Raised(Captured(c2, outcome), "ClientError", outcome)

(***************************************************************************)
(* delete_object                                                           *)
(***************************************************************************)
delete_object(key) ==
    \E outcome \in PlainOutcomes :
        LET c1 == Sent(Started("delete_object", key),
                       Req("delete_object", key, <<>>, outcome)) IN
        IF outcome = "ok"
        THEN /\ UNCHANGED <<parameters, clients>>
             /\ bucket' = [bucket EXCEPT ![key] = NoObject]
             /\ call' = Returned(c1, BoolValue(TRUE))
        ELSE /\ call' = Raised(c1, "ClientError", outcome)
             /\ UNCHANGED <<bucket, parameters, clients>>

(***************************************************************************)
(* list_objects                                                            *)
(***************************************************************************)
\* variant: no object is skipped
IsCollectionInfo_Never(key) == FALSE

\* filename == ".collection_info": the object is skipped
IsCollectionInfo(key) == Filename(key) = CollectionInfo

\* variant: the tags are dropped as well when head_object failed
ObjectSummary_TagsNeedHead(key, headOk, tagOk) ==
    [key |-> key,
     filename |-> Filename(key),
     content_type |-> IF headOk THEN "stored" ELSE "unknown",
     metadata |-> IF headOk THEN "stored" ELSE "empty",
     tags |-> IF headOk /\ tagOk THEN TagDict(bucket[key].tags) ELSE <<>>]

\* one entry of the returned list; headOk and tagOk tell whether head_object and
\* get_object_tagging answered for the object
ObjectSummary(key, headOk, tagOk) ==
    [key |-> key,
     filename |-> Filename(key),
     content_type |-> IF headOk THEN "stored" ELSE "unknown",
     metadata |-> IF headOk THEN "stored" ELSE "empty",
     tags |-> IF tagOk THEN TagDict(bucket[key].tags) ELSE <<>>]

\* the loop over response["Contents"], from entry i on: the summaries appended
RECURSIVE ListedObjects(_, _, _, _)
ListedObjects(contents, i, headFail, tagFail) ==
    IF i > Len(contents) THEN <<>>
    ELSE (IF IsCollectionInfo(contents[i]) THEN <<>>
          ELSE <<ObjectSummary(contents[i], i \notin headFail, i \notin tagFail)>>)
         \o ListedObjects(contents, i + 1, headFail, tagFail)

\* the loop over response["Contents"], from entry i on: the requests sent
RECURSIVE ListedRequests(_, _, _, _)
ListedRequests(contents, i, headFail, tagFail) ==
    IF i > Len(contents) THEN <<>>
    ELSE <<Req("head_object", contents[i], <<>>,
               IF i \in headFail THEN LookupFailure ELSE "ok")>>
         \o (IF IsCollectionInfo(contents[i]) THEN <<>>
             ELSE <<Req("get_object_tagging", contents[i], <<>>,
                        IF i \in tagFail THEN LookupFailure ELSE "ok")>>)
         \o ListedRequests(contents, i + 1, headFail, tagFail)

list_objects(prefix) ==
    /\ UNCHANGED <<bucket, parameters, clients>>
    /\ \E outcome \in PlainOutcomes :
          LET c1 == Sent(Started("list_objects", prefix),
                         Req("list_objects_v2", prefix, <<>>, outcome))
              contents == Contents(prefix)
          IN
          IF outcome # "ok" THEN call' = Raised(c1, "ClientError", outcome)
          ELSE \E headFail \in SUBSET (1..Len(contents)),
                  tagFail \in SUBSET (1..Len(contents)) :
                  call' = Returned(
                      [c1 EXCEPT !.reqs =
                          @ \o ListedRequests(contents, 1, headFail, tagFail)],
                      [t |-> "objects",
                       items |-> ListedObjects(contents, 1, headFail, tagFail)])

(***************************************************************************)
(* delete_collection                                                       *)
(***************************************************************************)
\* objects_to_delete: the keys handed to the bulk delete
ObjectsToDelete(prefix) == Contents(prefix)

\* variant: the bulk delete is sent whatever the listing holds
SendsBulkDelete_Always(objects) == TRUE

\* "Contents" in response, and objects_to_delete is not empty
SendsBulkDelete(objects) == objects # <<>>

\* variant: every key handed to the bulk delete is reported as deleted
DeletedObjects_AllRequested(objects, gone) == objects

\* deleted_objects: the keys of delete_response["Deleted"], gone being the keys
\* the store deleted
DeletedObjects(objects, gone) == SelectSeq(objects, LAMBDA k : k \in gone)

delete_collection(prefix) ==
    \E outcome \in PlainOutcomes :
        LET c1 == Sent(Started("delete_collection", prefix),
                       Req("list_objects_v2", prefix, <<>>, outcome))
            objects == ObjectsToDelete(prefix)
            result(deleted) == [t |-> "deletion", s3_prefix |-> prefix,
                                deleted_objects |-> deleted,
                                total_deleted |-> Len(deleted)]
        IN
        IF outcome # "ok"
        THEN /\ call' = Raised(c1, "ClientError", outcome)
             /\ UNCHANGED <<bucket, parameters, clients>>
        ELSE IF ~SendsBulkDelete(objects)
        THEN /\ call' = Returned(c1, result(<<>>))
             /\ UNCHANGED <<bucket, parameters, clients>>
        ELSE \E delOutcome \in PlainOutcomes :
                LET c2 == Sent(c1, DeleteObjectsReq(objects, delOutcome)) IN
                IF delOutcome # "ok"
                THEN /\ call' = Raised(c2, "ClientError", delOutcome)
                     /\ UNCHANGED <<bucket, parameters, clients>>
                ELSE \E gone \in SUBSET Range(objects) :
                        LET deleted == DeletedObjects(objects, gone) IN
                        /\ UNCHANGED <<parameters, clients>>
                        /\ bucket' = [k \in Keys |->
                                         IF k \in gone THEN NoObject ELSE bucket[k]]
                        /\ call' = Returned(c2, result(deleted))

(***************************************************************************)
(* get_tags, put_tags                                                      *)
(***************************************************************************)
get_tags(key) ==
    /\ UNCHANGED <<bucket, parameters, clients>>
    /\ \E outcome \in GetObjectTaggingOutcomes(key) :
          LET c1 == Sent(After(Started("get_tags", key), call),
                         Req("get_object_tagging", key, <<>>, outcome)) IN
          IF outcome = "ok"
          THEN call' = Returned(c1, [t |-> "tags", dict |-> TagDict(bucket[key].tags)])
          ELSE call' = Raised(c1, "ClientError", outcome)

\* variant: the store keeps the tags the request does not name
StoredTagSet_Merged(existing, tags) ==
    SelectSeq(existing, LAMBDA tag : tag.Key \notin TagKeys(tags)) \o tags

\* the tag set of an object after put_object_tagging(Tagging={"TagSet": tags})
StoredTagSet(existing, tags) == tags

put_tags(key, tags) ==
    \E outcome \in PutObjectTaggingOutcomes(key, tags) :
        LET c1 == Sent([Started("put_tags", key) EXCEPT
                            !.tags = tags, !.existing = bucket[key].tags],
                       Req("put_object_tagging", key, tags, outcome)) IN
        IF outcome = "ok"
        THEN /\ UNCHANGED <<parameters, clients>>
             /\ bucket' = [bucket EXCEPT ![key].tags = StoredTagSet(@, tags)]
             /\ call' = Returned(c1, BoolValue(TRUE))
        ELSE /\ call' = Raised(c1, "ClientError", outcome)
             /\ UNCHANGED <<bucket, parameters, clients>>

(***************************************************************************)
(* append_tags                                                             *)
(***************************************************************************)
\* variant: an existing tag wins over a new tag of the same key
UpdatedTags_ExistingWins(existing, new_tags, exclude_keys) ==
    LET kept == IF exclude_keys # <<>>
                THEN SelectSeq(existing, LAMBDA tag : tag.Key \notin Range(exclude_keys))
                ELSE existing
    IN kept \o SelectSeq(new_tags, LAMBDA tag : tag.Key \notin TagKeys(kept))

\* variant: exclude_keys is applied to the new tags as well
UpdatedTags_ExcludeNew(existing, new_tags, exclude_keys) ==
    LET kept == SelectSeq(existing, LAMBDA tag : tag.Key \notin Range(exclude_keys))
        new_tag_keys == [i \in 1..Len(new_tags) |-> new_tags[i].Key]
    IN SelectSeq(kept, LAMBDA tag : tag.Key \notin Range(new_tag_keys))
       \o SelectSeq(new_tags, LAMBDA tag : tag.Key \notin Range(exclude_keys))

\* updated_tags on the normal path: the existing tags that are neither excluded
\* nor replaced, followed by the new tags
UpdatedTags(existing, new_tags, exclude_keys) ==
    LET kept == IF exclude_keys # <<>>
                THEN SelectSeq(existing, LAMBDA tag : tag.Key \notin Range(exclude_keys))
                ELSE existing
        new_tag_keys == [i \in 1..Len(new_tags) |-> new_tags[i].Key]
    IN SelectSeq(kept, LAMBDA tag : tag.Key \notin Range(new_tag_keys)) \o new_tags

\* variant: the existing tags are merged although their fetch failed
TagsToWrite_FetchIgnored(getOutcome, existing, new_tags, exclude_keys) ==
    UpdatedTags(existing, new_tags, exclude_keys)

\* updated_tags after the fetch of the existing tags ended as getOutcome
TagsToWrite(getOutcome, existing, new_tags, exclude_keys) ==
    IF getOutcome = "ok" THEN UpdatedTags(existing, new_tags, exclude_keys)
    ELSE new_tags

\* variant: the limit is off by one
AfterLimitCheck_OffByOne(c, updated_tags) ==
    IF Len(updated_tags) > MaxTags + 1 THEN Raised(c, "ValueError", "none") ELSE c

\* variant: the limit is checked after the write was sent
AfterLimitCheck_WriteFirst(c, updated_tags) ==
    IF Len(updated_tags) > MaxTags
    THEN Raised(Sent(c, Req("put_object_tagging", c.key, updated_tags, "InvalidTag")),
                "ValueError", "none")
    ELSE c

\* the limit check of either path: the call raises ValueError or goes on
AfterLimitCheck(c, updated_tags) ==
    IF Len(updated_tags) > MaxTags THEN Raised(c, "ValueError", "none") ELSE c

append_tags(key, new_tags, exclude_keys) ==
    \E getOutcome \in GetObjectTaggingOutcomes(key) :
        LET c0 == [Started("append_tags", key) EXCEPT
                       !.tags = new_tags, !.exclude = exclude_keys,
                       !.existing = bucket[key].tags]
            c1 == Sent(c0, Req("get_object_tagging", key, <<>>, getOutcome))
            updated_tags == TagsToWrite(getOutcome, bucket[key].tags, new_tags,
                                        exclude_keys)
            c2 == AfterLimitCheck(c1, updated_tags)
        IN
        IF c2.kind = "raise"
        THEN /\ call' = c2
             /\ UNCHANGED <<bucket, parameters, clients>>
        ELSE \E outcome \in PutObjectTaggingOutcomes(key, updated_tags) :
                LET c3 == Sent(c2, Req("put_object_tagging", key, updated_tags,
                                       outcome)) IN
                IF outcome = "ok"
                THEN /\ UNCHANGED <<parameters, clients>>
                     /\ bucket' = [bucket EXCEPT ![key].tags = StoredTagSet(@, updated_tags)]
                     /\ call' = Returned(c3, BoolValue(TRUE))
                ELSE /\ call' = Raised(c3, "ClientError", outcome)
                     /\ UNCHANGED <<bucket, parameters, clients>>

(***************************************************************************)
(* append_tags of two instances, request by request                        *)
(***************************************************************************)
\* new_tags of the instance c: the keys of one instance are not keys of the other
ConcurrentTagInputs(c) ==
    IF c = 1 THEN { <<[Key |-> 1, Value |-> 1]>>,
                    <<[Key |-> 1, Value |-> 1], [Key |-> 3, Value |-> 1]>> }
    ELSE { <<[Key |-> 2, Value |-> 1]>>, TagsFromTo(2, MaxTags + 1, 2) }

\* append_tags up to the limit check: the fetch of the existing tags, the merge
append_tags_fetch(c, key, new_tags) ==
    /\ clients[c].pc = "idle"
    /\ UNCHANGED <<bucket, call, parameters>>
    /\ \E getOutcome \in GetObjectTaggingOutcomes(key) :
          LET c0 == [Started("append_tags", key) EXCEPT
                         !.tags = new_tags, !.existing = bucket[key].tags]
              c1 == Sent(c0, Req("get_object_tagging", key, <<>>, getOutcome))
              updated_tags == TagsToWrite(getOutcome, bucket[key].tags, new_tags, <<>>)
              c2 == AfterLimitCheck(c1, updated_tags)
          IN
          clients' = [clients EXCEPT ![c] =
                         [pc |-> IF c2.kind = "raise" THEN "done" ELSE "fetched",
                          updated_tags |-> updated_tags, rec |-> c2]]

\* append_tags from the write on
append_tags_put(c) ==
    /\ clients[c].pc = "fetched"
    /\ UNCHANGED <<call, parameters>>
    /\ LET key == clients[c].rec.key
           updated_tags == clients[c].updated_tags
       IN
       \E outcome \in PutObjectTaggingOutcomes(key, updated_tags) :
           LET c3 == Sent(clients[c].rec,
                          Req("put_object_tagging", key, updated_tags, outcome)) IN
           IF outcome = "ok"
           THEN /\ bucket' = [bucket EXCEPT ![key].tags = StoredTagSet(@, updated_tags)]
                /\ clients' = [clients EXCEPT ![c].pc = "done",
                                              ![c].rec = Returned(c3, BoolValue(TRUE))]
           ELSE /\ clients' = [clients EXCEPT ![c].pc = "done",
                                              ![c].rec = Raised(c3, "ClientError", outcome)]
                /\ UNCHANGED bucket

(***************************************************************************)
(* create_presigned_url                                                    *)
(***************************************************************************)
\* the Python value None
NoneValue == [t |-> "None"]

\* how generate_presigned_url can end: it signs locally and sends nothing to the
\* store; it raises ParamValidationError on an empty Key, NoCredentialsError when
\* the session has no credentials, or a ClientError
GeneratePresignedUrlOutcomes(object_key) ==
    IF object_key = <<>> THEN {"ParamValidationError", "NoCredentialsError"}
    ELSE {"ok", "NoCredentialsError"} \cup TransientCodes

\* generate_presigned_url("get_object", Params=params), disposition telling
\* whether params holds ResponseContentDisposition = "attachment"
PresignReq(object_key, disposition, outcome) ==
    [api |-> "generate_presigned_url", key |-> object_key, tagset |-> <<>>,
     keys |-> <<>>, outcome |-> outcome, disposition |-> disposition]

create_presigned_url(object_key, asDownload) ==
    /\ UNCHANGED <<bucket, parameters, clients>>
    /\ \E outcome \in GeneratePresignedUrlOutcomes(object_key) :
          LET c1 == Sent(Started("create_presigned_url", object_key),
                         PresignReq(object_key, asDownload, outcome))
          IN
          IF outcome = "ok"
          THEN call' = Returned(c1, [t |-> "url", key |-> object_key,
                                     disposition |-> asDownload])
          ELSE IF outcome \in TransientCodes
          THEN call' = Returned(c1, NoneValue)
          ELSE call' = Raised(c1, outcome, "none")

(***************************************************************************)
(* create_collection, list_collections                                     *)
(***************************************************************************)
\* orgid and collection handed to create_collection and list_collections
OrgIds == { <<"org1">> }

CollectionNames == { <<"Foo">>, <<"foo">>, <<"FOO">> }

\* variant: the name is used as given
Lower_Identity(str) == str

\* str.lower(), on the capitalised symbols of the model
Lower(str) ==
    [i \in 1..Len(str) |-> IF str[i] \in {"Foo", "FOO"} THEN "foo" ELSE str[i]]

\* collection_prefix
CollectionPrefix(orgid, collection) == orgid \o <<"/">> \o Lower(collection)

\* placeholder_key
PlaceholderKey(orgid, collection) ==
    CollectionPrefix(orgid, collection) \o <<"/">> \o CollectionInfo

create_collection(orgid, collection) ==
    \E outcome \in PlainOutcomes :
        LET placeholder_key == PlaceholderKey(orgid, collection)
            c1 == Sent(Started("create_collection", orgid \o <<"/">> \o collection),
                       Req("put_object", placeholder_key, <<>>, outcome))
        IN
        IF outcome = "ok"
        THEN /\ UNCHANGED <<parameters, clients>>
             /\ bucket' = [k \in Keys |->
                             IF k = placeholder_key
                             THEN [present |-> TRUE, tags |-> <<>>,
                                   collection |-> collection]
                             ELSE bucket[k]]
             /\ call' = Returned(c1, [t |-> "prefix",
                                      prefix |-> CollectionPrefix(orgid, collection)])
        ELSE /\ call' = Raised(c1, "ClientError", outcome)
             /\ UNCHANGED <<bucket, parameters, clients>>

\* position of the first "/" of s after position n, 0 when there is none
NextSlash(s, n) ==
    IF \E i \in (n + 1)..Len(s) : s[i] = "/"
    THEN CHOOSE i \in (n + 1)..Len(s) : s[i] = "/" /\ \A j \in (n + 1)..(i - 1) : s[j] # "/"
    ELSE 0

\* what list_objects_v2(Prefix=prefix, Delimiter="/") lists for key: the key, or
\* the common prefix that ends at the first "/" after prefix
ListingEntry(prefix, key) ==
    IF NextSlash(key, Len(prefix)) = 0
    THEN [common |-> FALSE, name |-> key]
    ELSE [common |-> TRUE, name |-> SubSeq(key, 1, NextSlash(key, Len(prefix)))]

\* entries without the repetitions of a common prefix
RECURSIVE Distinct(_)
Distinct(entries) ==
    IF entries = <<>> THEN <<>>
    ELSE LET rest == Distinct(SubSeq(entries, 1, Len(entries) - 1))
             last == entries[Len(entries)]
         IN IF last \in Range(rest) THEN rest ELSE Append(rest, last)

\* the keys and common prefixes of one response: the first MaxKeys of them
ListingPage(prefix) ==
    LET keys == KeysUnder(prefix)
        all == Distinct([i \in 1..Len(keys) |-> ListingEntry(prefix, keys[i])])
    IN SubSeq(all, 1, Min(MaxKeys, Len(all)))

\* response["CommonPrefixes"]
CommonPrefixes(prefix) ==
    LET page == SelectSeq(ListingPage(prefix), LAMBDA e : e.common)
    IN [i \in 1..Len(page) |-> page[i].name]

\* str.rstrip("/")
RECURSIVE RStripSlash(_)
RStripSlash(str) ==
    IF str # <<>> /\ str[Len(str)] = "/"
    THEN RStripSlash(SubSeq(str, 1, Len(str) - 1))
    ELSE str

\* collection_path.rstrip("/").split("/")[-1]
CollectionName(collection_path) == Filename(RStripSlash(collection_path))

list_collections(orgid) ==
    /\ UNCHANGED <<bucket, parameters, clients>>
    /\ \E outcome \in PlainOutcomes :
          LET prefix == orgid \o <<"/">>
              c1 == Sent(Started("list_collections", orgid),
                         Req("list_objects_v2", prefix, <<>>, outcome))
              prefixes == CommonPrefixes(prefix)
          IN
          IF outcome = "ok"
          THEN call' = Returned(c1, [t |-> "collections",
                                     names |-> [i \in 1..Len(prefixes) |->
                                                   CollectionName(prefixes[i])]])
          ELSE call' = Raised(c1, "ClientError", outcome)

(***************************************************************************)
(* SSMClient                                                               *)
(***************************************************************************)
StrValue(str) == [t |-> "str", s |-> str]

\* str.split(sep)
RECURSIVE Split(_, _)
Split(str, sep) ==
    IF \E i \in 1..Len(str) : str[i] = sep
    THEN LET i == CHOOSE i \in 1..Len(str) :
                     str[i] = sep /\ \A j \in 1..(i - 1) : str[j] # sep
         IN <<SubSeq(str, 1, i - 1)>> \o Split(SubSeq(str, i + 1, Len(str)), sep)
    ELSE <<str>>

\* parameter_name as get_secure_parameter, delete_parameter and update_parameter
\* take it from their argument; valid is FALSE for "Invalid ARN format"
ParameterName(name_or_arn) ==
    IF StartsWith(name_or_arn, ArnPrefix)
    THEN LET parts == Split(name_or_arn, ":") IN
         IF Len(parts) >= 6
         THEN LET parameter_path == parts[6] IN
              IF StartsWith(parameter_path, <<"parameter">>)
              THEN [valid |-> TRUE, name |-> parameter_path]
              ELSE [valid |-> TRUE, name |-> <<"/">> \o parameter_path]
         ELSE [valid |-> FALSE, name |-> <<>>]
    ELSE [valid |-> TRUE, name |-> name_or_arn]

create_secure_parameter(name, value) ==
    /\ UNCHANGED <<bucket, clients>>
    /\ \E outcome \in PutParameterOutcomes(name) :
          LET c1 == Sent(Started("create_secure_parameter", name),
                         SsmReq("put_parameter", name, value, outcome))
          IN
          IF outcome = "ok"
          THEN /\ parameters' = [parameters EXCEPT ![name] = value]
               /\ \E described \in DescribeParametersOutcomes :
                     call' = Returned(
                         Sent(c1, SsmReq("describe_parameters", name, "", described)),
                         StrValue(IF described = "ok" THEN ArnOf(name) ELSE name))
          ELSE /\ call' = Raised(Captured(c1, outcome), "ClientError", outcome)
               /\ UNCHANGED parameters

get_secure_parameter(name_or_arn) ==
    /\ UNCHANGED <<bucket, parameters, clients>>
    /\ LET c0 == Started("get_secure_parameter", name_or_arn)
           parameter == ParameterName(name_or_arn)
       IN
       IF ~parameter.valid THEN call' = Returned(c0, NoneValue)
       ELSE \E outcome \in GetParameterOutcomes(parameter.name) :
               LET c1 == Sent(c0, SsmReq("get_parameter", parameter.name, "", outcome))
               IN
               IF outcome = "ok"
               THEN call' = Returned(c1, StrValue(parameters[parameter.name]))
               ELSE IF outcome = "ParameterNotFound"
               THEN call' = Returned(c1, NoneValue)
               ELSE call' = Returned(Captured(c1, outcome), NoneValue)

delete_parameter(arn) ==
    /\ UNCHANGED <<bucket, clients>>
    /\ LET c0 == Started("delete_parameter", arn)
           parameter == ParameterName(arn)
       IN
       IF ~parameter.valid
       THEN /\ call' = Returned(c0, BoolValue(FALSE))
            /\ UNCHANGED parameters
       ELSE \E outcome \in GetParameterOutcomes(parameter.name) :
               LET c1 == Sent(c0, SsmReq("delete_parameter", parameter.name, "",
                                         outcome))
               IN
               IF outcome = "ok"
               THEN /\ parameters' = [parameters EXCEPT ![parameter.name] = NoParameter]
                    /\ call' = Returned(c1, BoolValue(TRUE))
               ELSE /\ call' = Returned(Captured(c1, outcome), BoolValue(FALSE))
                    /\ UNCHANGED parameters

update_parameter(arn, value) ==
    /\ UNCHANGED <<bucket, clients>>
    /\ LET c0 == Started("update_parameter", arn)
           parameter == ParameterName(arn)
       IN
       IF ~parameter.valid
       THEN /\ call' = Returned(c0, BoolValue(FALSE))
            /\ UNCHANGED parameters
       ELSE \E outcome \in PutParameterOutcomes(parameter.name) :
               LET c1 == Sent(c0, SsmReq("put_parameter", parameter.name, value,
                                         outcome))
               IN
               IF outcome = "ok"
               THEN /\ parameters' = [parameters EXCEPT ![parameter.name] = value]
                    /\ call' = Returned(c1, BoolValue(TRUE))
               ELSE /\ call' = Returned(Captured(c1, outcome), BoolValue(FALSE))
                    /\ UNCHANGED parameters

(***************************************************************************)
(* QdrantService.collection_info                                           *)
(***************************************************************************)
\* collection_name; orgid and cluster_id, <<>> being None
QdrantCollectionNames == { <<"docs">>, <<"Docs">>, <<"missing">> }

OptionalIds == { <<>>, <<"id1">> }

\* the status codes the service answers with
HttpStatuses == {200, 400, 404, 500, 503}

\* how requests.get ends: no response (a connection error), or a response with a
\* status and a body that is JSON or not
HttpOutcomes ==
    {[response |-> FALSE, status |-> 0, json |-> FALSE]}
    \cup {[response |-> TRUE, status |-> st, json |-> js] :
             st \in HttpStatuses, js \in BOOLEAN}

\* response.raise_for_status() raises HTTPError
RaisesForStatus(status) == 400 <= status /\ status < 600

\* requests.get(endpoint, params={...}) and its outcome
HttpReq(collection_name, orgid, cluster_id, outcome) ==
    [api |-> "GET /collection-info", key |-> collection_name, tagset |-> <<>>,
     keys |-> <<>>, outcome |-> outcome, orgid |-> orgid,
     platform_cluster_id |-> cluster_id]

\* variant: every client-error status is taken for a missing collection
IsCollectionNotFound_AnyClientError(status) == 400 <= status /\ status < 500

\* e.response.status_code == 404
IsCollectionNotFound(status) == status = 404

collection_info(collection_name, orgid, cluster_id) ==
    /\ UNCHANGED <<bucket, parameters, clients>>
    /\ \E outcome \in HttpOutcomes :
          LET c1 == Sent(Started("collection_info", collection_name),
                         HttpReq(collection_name, orgid, cluster_id, outcome))
          IN
          IF ~outcome.response
          THEN call' = Raised(Captured(c1, "ConnectionError"), "Exception", "none")
          ELSE IF RaisesForStatus(outcome.status)
          THEN IF IsCollectionNotFound(outcome.status)
               THEN call' = Raised(Captured(c1, "HTTPError"),
                                   "CollectionNotFoundException", "none")
               ELSE call' = Raised(Captured(c1, "HTTPError"), "Exception", "none")
          ELSE IF ~outcome.json
          THEN call' = Raised(Captured(c1, "JSONDecodeError"), "Exception", "none")
          ELSE call' = Returned(c1, [t |-> "json", collection |-> collection_name])

Next ==
    \/ \E key \in Keys : exists_in_s3(key)
    \/ \E key \in Keys, fileReadable \in BOOLEAN : upload(key, fileReadable, <<>>)
    \/ \E key \in Keys : download(key)
    \/ \E key \in Keys : delete_object(key)
    \/ \E prefix \in Prefixes : list_objects(prefix)
    \/ \E prefix \in Prefixes : delete_collection(prefix)

Spec == Init /\ [][Next]_vars

\* the tagging operations, on the objects of TagObjKeys
NextTags ==
    \/ \E key \in TagObjKeys, fileReadable \in BOOLEAN, tags \in TagInputs \cup {<<>>} :
          upload(key, fileReadable, tags)
    \/ \E key \in TagObjKeys : get_tags(key)
    \/ \E key \in TagObjKeys, tags \in TagInputs : put_tags(key, tags)
    \/ \E key \in TagObjKeys, new_tags \in TagInputs, exclude_keys \in ExcludeInputs :
          append_tags(key, new_tags, exclude_keys)

SpecTags == Init /\ [][NextTags]_vars

\* keys and tag lists of the objects uploaded before a listing with tags
ListedKeys ==
    { <<"org1", "/", "foo", "/", ".collection_info">>,
      <<"org1", "/", "foo", "/", "x">>,
      <<"org1", "/", "foo", "/", "y">> }

ListedTagInputs == { <<>>, TagsFromTo(1, 1, 2) }

\* list_objects over objects uploaded with and without tags
NextListing ==
    \/ \E key \in ListedKeys, fileReadable \in BOOLEAN, tags \in ListedTagInputs :
          upload(key, fileReadable, tags)
    \/ \E key \in ListedKeys : delete_object(key)
    \/ \E prefix \in Prefixes : list_objects(prefix)
    \/ \E object_key \in ListedKeys \cup {<<>>}, asDownload \in BOOLEAN :
          create_presigned_url(object_key, asDownload)

SpecListing == Init /\ [][NextListing]_vars

\* two instances calling append_tags on one object that was uploaded before
NextConcurrent ==
    \/ \E key \in TagObjKeys, tags \in ListedTagInputs :
          /\ \A c \in ClientIds : clients[c].pc = "idle"
          /\ upload(key, TRUE, tags)
    \/ \E c \in ClientIds, key \in TagObjKeys :
          \E new_tags \in ConcurrentTagInputs(c) : append_tags_fetch(c, key, new_tags)
    \/ \E c \in ClientIds : append_tags_put(c)

SpecConcurrent == Init /\ [][NextConcurrent]_vars

\* the vector-collection service client
NextQdrant ==
    \E collection_name \in QdrantCollectionNames, orgid \in OptionalIds,
       cluster_id \in OptionalIds :
        collection_info(collection_name, orgid, cluster_id)

SpecQdrant == Init /\ [][NextQdrant]_vars

\* the parameter store client
NextSSM ==
    \/ \E name \in ParamNames, value \in ParamValues :
          create_secure_parameter(name, value)
    \/ \E name_or_arn \in Identifiers : get_secure_parameter(name_or_arn)
    \/ \E arn \in Identifiers : delete_parameter(arn)
    \/ \E arn \in Identifiers, value \in ParamValues : update_parameter(arn, value)

SpecSSM == Init /\ [][NextSSM]_vars

\* the collection operations, delete_collection being called with the prefix
\* create_collection returns, with upload and delete_object to fill the bucket
NextCollections ==
    \/ \E orgid \in OrgIds, collection \in CollectionNames :
          create_collection(orgid, collection)
    \/ \E orgid \in OrgIds : list_collections(orgid)
    \/ \E orgid \in OrgIds, collection \in CollectionNames :
          delete_collection(CollectionPrefix(orgid, collection))
    \/ \E key \in Keys, fileReadable \in BOOLEAN : upload(key, fileReadable, <<>>)
    \/ \E key \in Keys : delete_object(key)

SpecCollections == Init /\ [][NextCollections]_vars

(***************************************************************************)
(* Properties                                                              *)
(***************************************************************************)
\* the requests of the last call to one API of the store
ReqsOf(api) == SelectSeq(call.reqs, LAMBDA r : r.api = api)

\* the last call sent no write of a tag set
NoTagWrite == ReqsOf("put_object_tagging") = <<>>

\* the tag set tagset holds no key twice, and every key of both T1 (the tags the
\* object held) and T2 (the new tags) carries a value T2 gives it
UniqueWithNewValues(tagset) ==
    /\ UniqueKeys(tagset)
    /\ \A i \in 1..Len(tagset) :
          tagset[i].Key \in TagKeys(call.existing) \cap TagKeys(call.tags)
          => \E j \in 1..Len(call.tags) : call.tags[j] = tagset[i]

\* C1: a successful append_tags(key, T2) on an object tagged T1, where T1 and T2
\* have at most 10 keys together, sends exactly one put_object_tagging; its
\* TagSet holds no key twice, and every key of both T1 and T2 carries T2's value.
\* When T2 itself holds no key twice, this is so of the TagSet sent whether or
\* not the store accepts the write.
C1_AppendWritesUniqueKeysNewValues ==
    /\ (/\ call.op = "append_tags"
        /\ call.kind = "return"
        /\ Cardinality(TagKeys(call.existing) \cup TagKeys(call.tags)) <= MaxTags)
       => /\ Len(ReqsOf("put_object_tagging")) = 1
          /\ UniqueWithNewValues(ReqsOf("put_object_tagging")[1].tagset)
    /\ (call.op = "append_tags" /\ UniqueKeys(call.tags))
       => \A i \in 1..Len(call.reqs) :
             call.reqs[i].api = "put_object_tagging"
             => UniqueWithNewValues(call.reqs[i].tagset)

\* append_tags succeeded on an object that held one of the new keys with
\* another value
C1_Witness ==
    /\ call.op = "append_tags"
    /\ call.kind = "return"
    /\ call.reqs[1].outcome = "ok"
    /\ \E i \in 1..Len(call.existing), j \in 1..Len(call.tags) :
          /\ call.existing[i].Key = call.tags[j].Key
          /\ call.existing[i].Value # call.tags[j].Value

\* C2 as claimed: whenever T1 and T2 have more than 10 keys together, append_tags
\* raises ValueError and sends no put_object_tagging, whether the fetch of the
\* existing tags succeeded or failed.
C2_ExceedingUnionAlwaysRejected ==
    (/\ call.op = "append_tags"
     /\ Cardinality(TagKeys(call.existing) \cup TagKeys(call.tags)) > MaxTags)
    => /\ call.kind = "raise"
       /\ call.exc = "ValueError"
       /\ NoTagWrite

\* the keys append_tags counts: those of the new tags, and when the fetch
\* succeeded those of the existing tags that exclude_keys does not name
CountedKeys ==
    IF call.reqs[1].outcome = "ok"
    THEN TagKeys(SelectSeq(call.existing,
                           LAMBDA tag : tag.Key \notin Range(call.exclude)))
         \cup TagKeys(call.tags)
    ELSE TagKeys(call.tags)

\* C2 (amended): when the fetch succeeds and the existing tags that exclude_keys
\* does not name have more than 10 keys together with T2, or when the fetch fails
\* and T2 alone has more than 10 keys, append_tags raises ValueError and sends no
\* put_object_tagging.
C2_ExceedingCountRejected ==
    (call.op = "append_tags" /\ Cardinality(CountedKeys) > MaxTags)
    => /\ call.kind = "raise"
       /\ call.exc = "ValueError"
       /\ NoTagWrite

\* append_tags with exclude_keys was rejected on the normal path
C2_Witness ==
    /\ call.op = "append_tags"
    /\ call.reqs[1].outcome = "ok"
    /\ call.exclude # <<>>
    /\ call.existing # <<>>
    /\ Cardinality(CountedKeys) > MaxTags
    /\ call.exc = "ValueError"

\* C3 as claimed: every tag set sent to the store, by put_tags, append_tags or
\* upload, has pairwise distinct keys and at most 10 entries.
C3_SentTagSetsValid ==
    \A i \in 1..Len(call.reqs) :
        call.reqs[i].api \in {"put_object_tagging", "upload_fileobj"}
        => StoreAcceptsTags(call.reqs[i].tagset)

\* C4 as claimed: an append_tags that fails with the tag-count ValueError has
\* sent no request at all.
C4_ValueErrorBeforeAnyRequest ==
    (call.op = "append_tags" /\ call.exc = "ValueError") => call.reqs = <<>>

\* C4 (amended): an append_tags that fails with the tag-count ValueError has sent
\* exactly one request, the get_object_tagging fetch, and no write.
C4_ValueErrorBeforeAnyWrite ==
    (call.op = "append_tags" /\ call.exc = "ValueError")
    => /\ Len(call.reqs) = 1
       /\ call.reqs[1].api = "get_object_tagging"
       /\ call.kind = "raise"

\* append_tags was rejected on the fallback path
C4_Witness ==
    /\ call.op = "append_tags"
    /\ call.exc = "ValueError"
    /\ call.reqs[1].outcome # "ok"

\* C5: exists_in_s3 returns False exactly when head_object answers not found;
\* when head_object succeeds it returns the response, and any other error
\* reaches the caller as the same ClientError.
C5_ExistsFalseIffNotFound ==
    call.op = "exists_in_s3"
    => LET head == call.reqs[1] IN
       /\ Len(call.reqs) = 1 /\ head.api = "head_object" /\ head.key = call.key
       /\ (call.kind = "return" /\ call.value = BoolValue(FALSE)) <=> head.outcome = "404"
       /\ head.outcome = "ok"
          => call.kind = "return" /\ call.value = [t |-> "metadata", Key |-> call.key]
       /\ head.outcome \notin {"ok", "404"}
          => call.kind = "raise" /\ call.exc = "ClientError" /\ call.code = head.outcome

\* exists_in_s3 met an error other than not found
C5_Witness ==
    /\ call.op = "exists_in_s3"
    /\ call.reqs[1].outcome = "403"
    /\ call.kind = "raise"

\* C6: when the existence check of download answers not found, download raises
\* FileNotFoundError and head_object is the only request it sent.
C6_DownloadNotFoundNoTransfer ==
    (call.op = "download" /\ call.reqs[1].outcome = "404")
    => /\ call.kind = "raise"
       /\ call.exc = "FileNotFoundError"
       /\ Len(call.reqs) = 1
       /\ call.reqs[1].api = "head_object"
       /\ ReqsOf("download_file") = <<>>

\* download of a key the bucket does not hold
C6_Witness ==
    /\ call.op = "download"
    /\ ~bucket[call.key].present
    /\ call.reqs[1].outcome = "404"
    /\ call.exc = "FileNotFoundError"

\* C7 as claimed: a call that fails on a ClientError of the store has reported
\* that error to capture_exception before raising it.
C7_StoreErrorsCaptured ==
    (/\ call.op \in {"upload", "download", "list_objects", "delete_object",
                     "create_collection", "delete_collection", "list_collections",
                     "get_tags", "put_tags", "append_tags"}
     /\ call.kind = "raise"
     /\ call.exc = "ClientError")
    => call.captured = <<call.code>>

\* C8 as claimed: no summary returned by list_objects has a key that ends in
\* ".collection_info".
C8_NoKeyEndsInCollectionInfo ==
    (call.op = "list_objects" /\ call.kind = "return")
    => \A i \in 1..Len(call.value.items) :
          ~EndsWith(call.value.items[i].key, CollectionInfo)

\* C8 (amended): no summary returned by list_objects has a key whose last path
\* segment is ".collection_info".
C8_NoCollectionInfoFile ==
    (call.op = "list_objects" /\ call.kind = "return")
    => \A i \in 1..Len(call.value.items) :
          SubSeq(call.value.items[i].key, LastSlash(call.value.items[i].key) + 1,
                 Len(call.value.items[i].key)) # <<".collection_info">>

\* list_objects looked at a marker object and returned another object
C8_Witness ==
    /\ call.op = "list_objects"
    /\ call.kind = "return"
    /\ call.value.items # <<>>
    /\ \E i \in 1..Len(call.reqs) :
          /\ call.reqs[i].api = "head_object"
          /\ call.reqs[i].key = <<"org1", "/", "foo", "/", ".collection_info">>

\* C9 as claimed: every object under the prefix that is not a collection marker
\* appears exactly once in the list list_objects returns.
C9_ListsEveryObjectOnce ==
    (call.op = "list_objects" /\ call.kind = "return")
    => \A k \in Keys :
          (bucket[k].present /\ StartsWith(k, call.key) /\ ~IsCollectionInfo(k))
          => Cardinality({i \in 1..Len(call.value.items) :
                             call.value.items[i].key = k}) = 1

\* C10 as claimed: after a delete_collection that returned and in which the
\* store deleted every key it was asked to delete, no object remains under the
\* prefix.
C10_DeletesEveryObject ==
    (/\ call.op = "delete_collection"
     /\ call.kind = "return"
     /\ \A i \in 1..Len(call.reqs) :
           call.reqs[i].api = "delete_objects"
           => call.value.deleted_objects = call.reqs[i].keys)
    => \A k \in Keys : StartsWith(k, call.key) => ~bucket[k].present

\* C11: a delete_collection(prefix) on a bucket that holds no object under prefix
\* sends no delete_objects request, and when the store answers the listing it
\* returns {s3_prefix: prefix, deleted_objects: [], total_deleted: 0}.
C11_EmptyCollectionNoBulkDelete ==
    [][(call'.op = "delete_collection" /\ KeysUnder(call'.key) = <<>>)
       => /\ \A i \in 1..Len(call'.reqs) : call'.reqs[i].api # "delete_objects"
          /\ call'.reqs[1].outcome = "ok"
             => /\ call'.kind = "return"
                /\ call'.value = [t |-> "deletion", s3_prefix |-> call'.key,
                                  deleted_objects |-> <<>>, total_deleted |-> 0]
                /\ Len(call'.reqs) = 1]_vars

\* delete_collection returned after the listing alone, on a bucket that holds
\* objects outside the prefix
C11_Witness ==
    /\ call.op = "delete_collection"
    /\ call.kind = "return"
    /\ call.key # <<>>
    /\ Len(call.reqs) = 1
    /\ call.value.total_deleted = 0
    /\ \E k \in Keys : bucket[k].present

\* C12: the result of delete_collection reports exactly the keys the store
\* deleted: deleted_objects holds the keys that left the bucket and no other,
\* all of them among the keys handed to delete_objects, and total_deleted is its
\* length.
C12_ReportsDeletedKeys ==
    [][(call'.op = "delete_collection" /\ call'.kind = "return")
       => /\ Range(call'.value.deleted_objects)
                = {k \in Keys : bucket[k].present /\ ~bucket'[k].present}
          /\ \A k \in Keys :
                bucket'[k].present => k \notin Range(call'.value.deleted_objects)
          /\ \A i \in 1..Len(call'.reqs) :
                call'.reqs[i].api = "delete_objects"
                => Range(call'.value.deleted_objects) \subseteq Range(call'.reqs[i].keys)
          /\ call'.value.total_deleted = Len(call'.value.deleted_objects)]_vars

\* delete_collection returned and the store had deleted only some of the keys
C12_Witness ==
    /\ call.op = "delete_collection"
    /\ call.kind = "return"
    /\ Len(call.reqs) = 2
    /\ call.value.deleted_objects # <<>>
    /\ Len(call.value.deleted_objects) < Len(call.reqs[2].keys)

\* the marker key and the prefix of the collection foo of org1
FooMarker == <<"org1", "/", "foo", "/", ".collection_info">>
FooPrefix == <<"org1", "/", "foo">>

ChildNames(orgid) ==
    {SubSeq(k, Len(orgid) + 2, i - 1) :
        <<k, i>> \in {<<k, i>> \in Keys \X (1..7) :
                        /\ bucket[k].present
                        /\ StartsWith(k, orgid \o <<"/">>)
                        /\ Len(orgid) + 1 < i /\ i <= Len(k)
                        /\ k[i] = "/"
                        /\ \A j \in (Len(orgid) + 2)..(i - 1) : k[j] # "/"}}

\* C14 as claimed: list_collections(orgId) returns the last path segment of each
\* immediate child prefix under {orgId}/, once each, and nothing else.
C14_ListsEveryChildPrefix ==
    (call.op = "list_collections" /\ call.kind = "return")
    => /\ Range(call.value.names) = ChildNames(call.key)
       /\ Len(call.value.names) = Cardinality(ChildNames(call.key))

\* C15: put_tags(key, T) that succeeded, followed at once by get_tags(key),
\* gives a mapping whose pairs are exactly those of T; the tags the object had
\* before the put_tags and that T does not name are gone.
C15_PutThenGetRoundTrip ==
    (/\ call.op = "get_tags" /\ call.kind = "return"
     /\ call.prior.op = "put_tags" /\ call.prior.kind = "return"
     /\ call.prior.key = call.key)
    => /\ DOMAIN call.value.dict = {call.prior.tags[i].Key : i \in 1..Len(call.prior.tags)}
       /\ \A i \in 1..Len(call.prior.tags) :
             call.value.dict[call.prior.tags[i].Key] = call.prior.tags[i].Value
       /\ \A j \in 1..Len(call.prior.existing) :
             (\A i \in 1..Len(call.prior.tags) :
                 call.prior.tags[i].Key # call.prior.existing[j].Key)
             => call.prior.existing[j].Key \notin DOMAIN call.value.dict

\* get_tags returned right after a put_tags that replaced a larger tag set
C15_Witness ==
    /\ call.op = "get_tags" /\ call.kind = "return"
    /\ call.prior.op = "put_tags" /\ call.prior.kind = "return"
    /\ Len(call.prior.tags) = 1
    /\ Len(call.prior.existing) = MaxTags
    /\ \E j \in 1..Len(call.prior.existing) :
          call.prior.existing[j].Key # call.prior.tags[1].Key

\* C16: when append_tags fetched the existing tags and the combined count is at
\* most 10, the tag set it writes is the existing tags whose key is neither in
\* exclude_keys nor a key of new_tags, unchanged and in their order, followed by
\* new_tags; exclude_keys removes no entry of new_tags.
C16_WritesSurvivorsThenNewTags ==
    (/\ call.op = "append_tags"
     /\ call.reqs[1].outcome = "ok"
     /\ call.exc # "ValueError")
    => /\ Len(call.reqs) = 2
       /\ call.reqs[2].api = "put_object_tagging"
       /\ LET written == call.reqs[2].tagset
              n == Len(written) - Len(call.tags)
          IN /\ n >= 0
             /\ SubSeq(written, n + 1, Len(written)) = call.tags
             /\ SubSeq(written, 1, n)
                  = SelectSeq(call.existing,
                              LAMBDA tag : /\ \A i \in 1..Len(call.exclude) :
                                                 call.exclude[i] # tag.Key
                                           /\ \A i \in 1..Len(call.tags) :
                                                 call.tags[i].Key # tag.Key)

\* append_tags wrote with success nine surviving tags and a new one after
\* exclude_keys removed an existing tag
C16_Witness ==
    /\ call.op = "append_tags" /\ call.kind = "return"
    /\ call.reqs[1].outcome = "ok"
    /\ call.exclude = <<2>>
    /\ Len(call.existing) = MaxTags
    /\ \E j \in 1..Len(call.existing) : call.existing[j].Key = 2
    /\ Len(call.tags) = 1
    /\ Len(call.reqs[2].tagset) = MaxTags

\* C17: when the fetch of the existing tags fails with a store error and new_tags
\* has at most 10 entries, append_tags goes on to write exactly new_tags; it
\* returns True when that write succeeds, and an error it raises is the error of
\* the write.
C17_FetchFailureWritesNewTags ==
    (/\ call.op = "append_tags"
     /\ call.reqs[1].outcome # "ok"
     /\ Len(call.tags) <= MaxTags)
    => /\ Len(call.reqs) = 2
       /\ call.reqs[2].api = "put_object_tagging"
       /\ call.reqs[2].tagset = call.tags
       /\ call.reqs[2].outcome = "ok" => (call.kind = "return" /\ call.value = BoolValue(TRUE))
       /\ call.reqs[2].outcome # "ok"
             => (call.kind = "raise" /\ call.exc = "ClientError"
                 /\ call.code = call.reqs[2].outcome)

\* the fetch failed on an object that carries tags, and append_tags returned True
\* after writing the new tag alone
C17_Witness ==
    /\ call.op = "append_tags" /\ call.kind = "return"
    /\ call.reqs[1].outcome # "ok"
    /\ Len(call.existing) = MaxTags
    /\ call.tags = <<[Key |-> MaxTags + 1, Value |-> 1]>>
    /\ bucket[call.key].tags = call.tags

\* the entries of the returned list whose key is key
ItemsOf(key) == SelectSeq(call.value.items, LAMBDA item : item.key = key)

\* the key-to-value mapping of the tags stored on key
StoredTagsOf(key) ==
    [k \in {bucket[key].tags[i].Key : i \in 1..Len(bucket[key].tags)} |->
        (CHOOSE tag \in Range(bucket[key].tags) : tag.Key = k).Value]

\* C18: when the listing request of list_objects is answered, the call returns
\* whatever the per-object lookups do; each listed object other than a marker has
\* one summary, with content_type "unknown" and empty metadata when its
\* head_object failed and with empty tags when its get_object_tagging failed, and
\* with the stored values otherwise, whatever happened to the other objects.
C18_LookupFailuresDegradeOneSummary ==
    (call.op = "list_objects" /\ call.reqs[1].outcome = "ok")
    => /\ call.kind = "return"
       /\ \A i \in 2..Len(call.reqs) :
             LET r == call.reqs[i] IN
             /\ (r.api = "head_object" /\ r.key[Len(r.key)] # ".collection_info")
                   => /\ Len(ItemsOf(r.key)) = 1
                      /\ ItemsOf(r.key)[1].content_type
                            = (IF r.outcome = "ok" THEN "stored" ELSE "unknown")
                      /\ ItemsOf(r.key)[1].metadata
                            = (IF r.outcome = "ok" THEN "stored" ELSE "empty")
             /\ r.api = "get_object_tagging"
                   => /\ Len(ItemsOf(r.key)) = 1
                      /\ ItemsOf(r.key)[1].tags
                            = (IF r.outcome = "ok" THEN StoredTagsOf(r.key) ELSE <<>>)

\* a listing of two tagged objects where head_object failed for the first and
\* get_object_tagging for the second
C18_Witness ==
    /\ call.op = "list_objects" /\ call.kind = "return"
    /\ Len(call.value.items) = 2
    /\ call.value.items[1].content_type = "unknown"
    /\ call.value.items[1].tags # <<>>
    /\ call.value.items[2].content_type = "stored"
    /\ call.value.items[2].tags = <<>>
    /\ bucket[call.value.items[2].key].tags # <<>>

\* C19 as claimed: create_presigned_url never raises; it returns None whenever
\* the generation of the URL fails and the URL whenever it succeeds, and the
\* request carries the "attachment" disposition exactly when download is true.
C19_PresignNeverRaises ==
    call.op = "create_presigned_url"
    => /\ call.kind = "return"
       /\ call.reqs[1].outcome = "ok" => call.value.t = "url"
       /\ call.reqs[1].outcome # "ok" => call.value = NoneValue
       /\ call.value.t = "url" => call.value.disposition = call.reqs[1].disposition

\* C20 as claimed: given the ARN arn:aws:ssm:region:account-id:parameter/path of
\* a parameter, get_secure_parameter, update_parameter and delete_parameter send
\* their request for the name /path, so that get_secure_parameter on the ARN of a
\* stored parameter returns its value unless the store fails; an identifier that
\* is not an ARN is the request's name unchanged; an ARN of fewer than 6 parts
\* gives None or False without a request.
C20_ArnAddressesStoredName ==
    call.op \in {"get_secure_parameter", "update_parameter", "delete_parameter"}
    => /\ \A n \in ParamNames :
             call.key = ArnOf(n)
             => /\ Len(call.reqs) = 1
                /\ call.reqs[1].key = n
                /\ (call.op = "get_secure_parameter" /\ parameters[n] # NoParameter)
                      => \/ call.value = StrValue(parameters[n])
                         \/ call.reqs[1].outcome \in SsmFailures
       /\ call.key \in ParamNames
             => (Len(call.reqs) = 1 /\ call.reqs[1].key = call.key)
       /\ call.key = ShortArn
             => /\ call.reqs = <<>>
                /\ call.value = (IF call.op = "get_secure_parameter"
                                 THEN NoneValue ELSE BoolValue(FALSE))

\* C21: collection_info raises CollectionNotFoundException exactly when the
\* service answers with status 404; a connection error, another error status or
\* a body that is not JSON is raised as Exception; otherwise the parsed response
\* is returned; every call that raises handed the original error to
\* capture_exception exactly once, and a call that returns handed it nothing.
C21_NotFoundIff404 ==
    call.op = "collection_info"
    => LET answer == call.reqs[1].outcome IN
       /\ Len(call.reqs) = 1
       /\ (call.kind = "raise" /\ call.exc = "CollectionNotFoundException")
             <=> (answer.response /\ answer.status = 404)
       /\ (answer.response /\ answer.status < 400 /\ answer.json)
             => (call.kind = "return"
                 /\ call.value = [t |-> "json", collection |-> call.key])
       /\ (~answer.response \/ (answer.status >= 400 /\ answer.status # 404)
           \/ (answer.status < 400 /\ ~answer.json))
             => (call.kind = "raise" /\ call.exc = "Exception")
       /\ call.kind = "raise"
             => call.captured = << IF ~answer.response THEN "ConnectionError"
                                   ELSE IF answer.status >= 400 THEN "HTTPError"
                                   ELSE "JSONDecodeError" >>
       /\ call.kind = "return" => call.captured = <<>>

\* the service answered 404 and the call raised CollectionNotFoundException after
\* one report to telemetry
C21_Witness ==
    /\ call.op = "collection_info"
    /\ call.reqs[1].outcome.response /\ call.reqs[1].outcome.status = 404
    /\ call.exc = "CollectionNotFoundException"
    /\ Len(call.captured) = 1

\* C22 as claimed: delete_collection called with the prefix create_collection
\* returned deletes only objects of that collection, those whose key begins with
\* the prefix followed by "/"; no object of a sibling collection such as
\* org1/foobar/ is deleted.
C22_DeletesOnlyOwnCollection ==
    (call.op = "delete_collection" /\ call.kind = "return")
    => \A i \in 1..Len(call.value.deleted_objects) :
          /\ StartsWith(call.value.deleted_objects[i], call.key \o <<"/">>)
          /\ ~StartsWith(call.value.deleted_objects[i],
                         <<"org1", "/", "foo", "bar", "/">>)

\* C23 as claimed: when two append_tags calls on one key with disjoint new-tag
\* keys and at most 10 tags in total have both fetched the existing tags and both
\* returned True, in whatever order their requests were served, the object's
\* tags hold the new tags of both calls.
C23_NoLostUpdate ==
    (/\ \A c \in ClientIds :
           /\ clients[c].pc = "done"
           /\ clients[c].rec.kind = "return"
           /\ clients[c].rec.reqs[1].outcome = "ok"
     /\ clients[1].rec.key = clients[2].rec.key
     /\ TagKeys(clients[1].rec.tags) \cap TagKeys(clients[2].rec.tags) = {}
     /\ Cardinality(TagKeys(clients[1].rec.existing) \cup TagKeys(clients[2].rec.existing)
                    \cup TagKeys(clients[1].rec.tags) \cup TagKeys(clients[2].rec.tags))
           <= MaxTags)
    => \A c \in ClientIds :
          Range(clients[c].rec.tags) \subseteq Range(bucket[clients[c].rec.key].tags)

====
